---- MODULE Spec2Model ----
(***************************************************************************)
(* A model of the stock-average web application: the average engine        *)
(* (stock_info.py), the watch-list batch fetchers (fno_stocks.py,          *)
(* nifty_next_50_stocks.py), the directory cache (stock_info.py) and the   *)
(* request handlers that drive them (app.py).                              *)
(*                                                                         *)
(* Prices are naturals and a mean is the exact fraction [num, den]; the    *)
(* rounding of IEEE doubles is not modelled.  A ticker is a sequence of    *)
(* one-character strings, so that strip(), upper(), startswith() and the   *)
(* "contains one of . = ^ -" test are computed, not assumed.               *)
(***************************************************************************)
EXTENDS Integers, Sequences, FiniteSets, TLC

VARIABLES
    \* ---- the average engine called directly (stock_info.py)
    fn,          \* the function applied: "none" before the call
    arg_ticker,  \* its ticker argument
    arg_days,    \* its window argument (get_moving_average, _calculate_moving_average)
    arg_net,     \* what the provider answers to each call the function makes
    ret,         \* what the function returned, None before the call
    calls,       \* the series queries the function sent to the provider, in order
    \* ---- one request for one ticker (app.py: home, stock_details)
    handler,     \* "idle", "home" or "stock_details"
    raw,         \* the ticker as the user typed it
    pc,          \* the handler's position
    probes,      \* the provider tickers probed by normalize_ticker so far
    norm,        \* get_all_averages: normalized_ticker
    latest,      \* get_all_averages: latest_price, None until fetched
    avgs,        \* get_all_averages: avg_5d .. avg_200d
    result_200w, \* the dict get_200_week_average returned, None until then
    failed,      \* the fields of get_all_averages whose fetch failed or gave no
                 \* value ("normalize": a normalize_ticker call raised)
    result,      \* what get_all_averages returned or raised, None until then
    response,    \* what the handler answered, None until then
    \* ---- one batch fetch over a watch-list (fno_stocks.py, nifty_next_50_stocks.py)
    batch,       \* "idle", then the watch-list fetched: "fno" or "nifty_next_50"
    filtered,    \* filtered_stocks
    task,        \* per position of filtered_stocks: the state of its future
    upstream,    \* per position: what the provider answered to the price query and
                 \* to the weekly queries, and the tickers it was asked for
    results,     \* results, in completion order
    returned,    \* whether the batch function has returned
    \* ---- the directory cache (stock_info.py: fetch_nse_csv, search_nse_stocks)
    nse_cache,   \* _nse_cache: [data, timestamp]
    clock,       \* time.time()
    requests,    \* the number of GETs issued to the directory source
    lookup,      \* the last search_nse_stocks call
    callers,     \* the threads inside fetch_nse_csv: position, now, df, and what the
                 \* last call was served from the cache
    data_requested_at  \* the now of the call that stored _nse_cache["data"]

vars == <<fn, arg_ticker, arg_days, arg_net, ret, calls,
          handler, raw, pc, probes, norm, latest, avgs, result_200w, failed, result, response,
          batch, filtered, task, upstream, results, returned,
          nse_cache, clock, requests, lookup, callers, data_requested_at>>

engine_vars == <<fn, arg_ticker, arg_days, arg_net, ret, calls>>
request_vars ==
    <<handler, raw, pc, probes, norm, latest, avgs, result_200w, failed, result, response>>
batch_vars == <<batch, filtered, task, upstream, results, returned>>
directory_vars == <<nse_cache, clock, requests, lookup, callers, data_requested_at>>

(***************************************************************************)
(* Python values                                                           *)
(***************************************************************************)
\* None, and a value that is not None
None == <<>>
Some(x) == <<x>>

\* str.upper() on the characters tickers are written with
upper_char(c) ==
    CASE c = "a" -> "A"
      [] c = "b" -> "B"
      [] c = "e" -> "E"
      [] c = "l" -> "L"
      [] c = "r" -> "R"
      [] c = "v" -> "V"
      [] OTHER -> c

upper(s) == [i \in 1..Len(s) |-> upper_char(s[i])]

RECURSIVE lstrip(_)
lstrip(s) == IF s # <<>> /\ Head(s) = " " THEN lstrip(Tail(s)) ELSE s

RECURSIVE rstrip(_)
rstrip(s) == IF s # <<>> /\ s[Len(s)] = " " THEN rstrip(SubSeq(s, 1, Len(s) - 1)) ELSE s

strip(s) == rstrip(lstrip(s))

startswith(s, p) == Len(p) <= Len(s) /\ SubSeq(s, 1, Len(p)) = p

\* any(x in ticker for x in [".", "=", "^", "-"])
is_qualified(t) == \E i \in 1..Len(t) : t[i] \in {".", "=", "^", "-"}

\* ticker + ".NS"
dot_NS(t) == t \o <<".", "N", "S">>

(***************************************************************************)
(* Provider tables (pandas DataFrames)                                     *)
(*   a response is [kind |-> "raise"], [kind |-> "none"] or                *)
(*   [kind |-> "df", cols |-> <<column, ...>>]; a column is                *)
(*   [name |-> <<label, ...>>, numeric |-> BOOLEAN, vals |-> <<cell, ...>>]*)
(*   (a flat column has one label, a MultiIndex column several); a cell is *)
(*   a number, a numeric string, NaN or a string that is no number.        *)
(***************************************************************************)
Num(v) == [k |-> "num", v |-> v]
NumStr(v) == [k |-> "numstr", v |-> v]
NaN == [k |-> "nan"]
Str == [k |-> "str"]

Raise == [kind |-> "raise"]
NoFrame == [kind |-> "none"]
Frame(cols) == [kind |-> "df", cols |-> cols]

\* df is None or df.empty
is_empty(df) ==
    \/ df.kind = "none"
    \/ df.cols = <<>>
    \/ Len(df.cols[1].vals) = 0

\* name = c if not isinstance(c, tuple) else c[-1]
last_label(c) == c.name[Len(c.name)]

\* "Close" in name
contains_Close(label) == label \in {"Close", "Adj Close"}

\* [c for c in cols if pd.api.types.is_numeric_dtype(df[c].dtype)]
numeric_cols(df) == SelectSeq(df.cols, LAMBDA c : c.numeric)

\* df[col], and .iloc[:, 0] when the label is not unique
column_of(df, c) ==
    LET same == SelectSeq(df.cols, LAMBDA d : d.name = c.name)
    IN  same[1].vals

\* pd.to_numeric(series, errors="coerce")
to_numeric(cells) ==
    [i \in 1..Len(cells) |->
        IF cells[i].k \in {"num", "numstr"} THEN Num(cells[i].v) ELSE NaN]

\* .dropna(), the remaining values as floats
dropna(cells) ==
    LET kept == SelectSeq(cells, LAMBDA e : e.k = "num")
    IN  [i \in 1..Len(kept) |-> kept[i].v]

\* series.tail(n)
tail(s, n) == IF Len(s) <= n THEN s ELSE SubSeq(s, Len(s) - n + 1, Len(s))

\* series.sum(), adding the two halves (the order does not change an exact sum)
RECURSIVE sum(_)
sum(s) ==
    IF s = <<>> THEN 0
    ELSE IF Len(s) = 1 THEN s[1]
    ELSE sum(SubSeq(s, 1, Len(s) \div 2)) + sum(SubSeq(s, Len(s) \div 2 + 1, Len(s)))

\* float(series.mean()), as the exact fraction
mean(s) == [num |-> sum(s), den |-> Len(s)]

\* float(val) of a number
float(v) == [num |-> v, den |-> 1]

\* comparisons of a price with an average
lt_or_equal(p, a) == p * a.den <= a.num
lt(p, a) == p * a.den < a.num
gt(p, a) == p * a.den > a.num

(***************************************************************************)
(* normalize_ticker (stock_info.py 362-388)                                *)
(*   us_test, nse_test: what the two probes answer                         *)
(*   returns [raised, value, probes]                                       *)
(***************************************************************************)
normalize_ticker(t0, us_test, nse_test) ==
    LET ticker == upper(strip(t0))
        nse_ticker == dot_NS(ticker)
    IN  IF is_qualified(ticker)
        THEN [raised |-> FALSE, value |-> ticker, probes |-> <<>>]
        ELSE IF us_test.kind \in {"raise", "none"}
        THEN [raised |-> TRUE, value |-> None, probes |-> <<ticker>>]
        ELSE IF ~is_empty(us_test)
        THEN [raised |-> FALSE, value |-> ticker, probes |-> <<ticker>>]
        ELSE IF nse_test.kind \in {"raise", "none"}
        THEN [raised |-> TRUE, value |-> None, probes |-> <<ticker, nse_ticker>>]
        ELSE IF ~is_empty(nse_test)
        THEN [raised |-> FALSE, value |-> nse_ticker, probes |-> <<ticker, nse_ticker>>]
        ELSE [raised |-> FALSE, value |-> ticker, probes |-> <<ticker, nse_ticker>>]

(***************************************************************************)
(* get_200_week_average (stock_info.py 8-95)                               *)
(*   download, history: what yf.download and Ticker.history answer         *)
(***************************************************************************)
\* the window of the long-horizon mean: series.tail(200), min(weeks_available, 200)
WeeksWindow == 200

INSUFFICIENT == "Insufficient data to form a recommendation"
BUY_200W == "Good to buy - price is below the 200-week average"
AVOID_200W == "Do not buy - price is above the 200-week average"
EQUAL_200W == "Price equals the 200-week average"

\* lines 9-12: the ticker the provider is asked for
weekly_ticker(t0) ==
    LET ticker == upper(strip(t0))
    IN  IF ~is_qualified(ticker) THEN dot_NS(ticker) ELSE ticker

\* lines 17-32: the bulk endpoint, then the per-symbol endpoint
weekly_frame(download, history) ==
    IF download.kind = "raise" THEN Raise
    ELSE IF ~is_empty(download) THEN download
    ELSE IF history.kind = "raise" THEN Raise
    ELSE history

\* lines 35-54: the price column, None when there is none
weekly_col(df) ==
    LET col_candidates == SelectSeq(df.cols, LAMBDA c : contains_Close(last_label(c)))
        adj == SelectSeq(col_candidates, LAMBDA c : last_label(c) = "Adj Close")
    IN  IF col_candidates = <<>>
        THEN IF numeric_cols(df) = <<>> THEN None ELSE Some(numeric_cols(df)[1])
        ELSE Some(IF adj # <<>> THEN adj[1] ELSE col_candidates[1])

\* lines 56-62: the cleaned weekly series
weekly_series(df) == dropna(to_numeric(column_of(df, weekly_col(df)[1])))

\* lines 70-84 (a text is a tuple of its parts: a message, or a message and a price)
weekly_rec(avg_200, latest_price) ==
    IF avg_200 = None \/ latest_price = None
    THEN [rec_type |-> "neutral", rec_text |-> <<INSUFFICIENT>>, diff_pct |-> None]
    ELSE LET a == avg_200[1]
             p == latest_price[1]
             d == IF a.num # 0
                  THEN Some([num |-> (p * a.den - a.num) * 100, den |-> a.num])
                  ELSE None
         IN  IF lt(p, a) THEN [rec_type |-> "buy", rec_text |-> <<BUY_200W>>, diff_pct |-> d]
             ELSE IF gt(p, a) THEN [rec_type |-> "avoid", rec_text |-> <<AVOID_200W>>, diff_pct |-> d]
             ELSE [rec_type |-> "neutral", rec_text |-> <<EQUAL_200W>>, diff_pct |-> d]

weekly_avg_of_all(series) == IF series # <<>> THEN Some(mean(series)) ELSE None

\* lines 64-68
weekly_avg(series) ==
    LET last_200 == tail(series, WeeksWindow)
    IN  IF last_200 # <<>> THEN Some(mean(last_200)) ELSE None

weekly_latest(series) == IF Len(series) > 0 THEN Some(series[Len(series)]) ELSE None

weekly_used(weeks_available) ==
    IF weeks_available < WeeksWindow THEN weeks_available ELSE WeeksWindow

get_200_week_average(t0, download, history) ==
    LET df == weekly_frame(download, history)
    IN  IF df.kind = "raise"
        THEN [raised |-> TRUE, error |-> "upstream"]
        ELSE IF is_empty(df)
        THEN [raised |-> TRUE, error |-> "No weekly data found for ticker"]
        ELSE IF weekly_col(df) = None
        THEN [raised |-> TRUE, error |-> "No numeric price column found in data"]
        ELSE LET series == weekly_series(df)
                 avg_200 == weekly_avg(series)
                 latest_price == weekly_latest(series)
                 rec == weekly_rec(avg_200, latest_price)
             IN  [raised |-> FALSE,
                  ticker |-> weekly_ticker(t0),
                  weeks_available |-> Len(series),
                  weeks_used |-> weekly_used(Len(series)),
                  avg_200_week |-> avg_200,
                  latest_price |-> latest_price,
                  diff_pct |-> rec.diff_pct,
                  rec_type |-> rec.rec_type,
                  rec_text |-> rec.rec_text]

(***************************************************************************)
(* _calculate_moving_average (stock_info.py 183-238)                       *)
(*   history_1y: Ticker.history(period="1y"), asked when days >= 200       *)
(*   download, history: the dated daily window, asked otherwise            *)
(*   returns the mean, or None                                             *)
(***************************************************************************)
\* days >= 200 goes to the per-symbol endpoint alone
LongWindow == 200

\* lines 187-206
daily_frame(days, history_1y, download, history) ==
    IF days >= LongWindow THEN history_1y
    ELSE IF download.kind = "raise" THEN Raise
    ELSE IF ~is_empty(download) THEN download
    ELSE history

\* lines 212-218 (and 264-270, fno_stocks.py 78-84): the loop over df.columns
RECURSIVE close_col_loop(_, _)
close_col_loop(cols, col) ==
    IF cols = <<>> THEN col
    ELSE LET c == Head(cols)
         IN  IF last_label(c) \in {"Adj Close", "Close"}
             THEN IF last_label(c) = "Adj Close" THEN Some(c)
                  ELSE close_col_loop(Tail(cols), Some(c))
             ELSE close_col_loop(Tail(cols), col)

\* lines 212-224
daily_col(df) ==
    LET col == close_col_loop(df.cols, None)
    IN  IF col # None THEN col
        ELSE IF numeric_cols(df) = <<>> THEN None ELSE Some(numeric_cols(df)[1])

trailing_mean_needs_more(series, days) ==
    IF Len(series) <= days THEN None ELSE Some(mean(tail(series, days)))

\* lines 232-236
trailing_mean(series, days) ==
    IF Len(series) < days THEN None
    ELSE LET last_days == tail(series, days)
         IN  IF last_days # <<>> THEN Some(mean(last_days)) ELSE None

_calculate_moving_average(days, history_1y, download, history) ==
    LET df == daily_frame(days, history_1y, download, history)
    IN  IF df.kind = "raise" THEN None
        ELSE IF is_empty(df) THEN None
        ELSE IF daily_col(df) = None THEN None
        ELSE trailing_mean(dropna(to_numeric(column_of(df, daily_col(df)[1]))), days)

(***************************************************************************)
(* get_moving_average (stock_info.py 146-180)                              *)
(*   net: [us_test, nse_test, info, history_1y, download, history]         *)
(*   info is [kind |-> "raise"] or [kind |-> "info", fiftyDayAverage,      *)
(*   twoHundredDayAverage, fiftyTwoWeekHigh, fiftyTwoWeekLow: cells]       *)
(*   returns [raised, value, probes]                                       *)
(***************************************************************************)
\* val and isinstance(val, (int, float))
usable_number(cell) == cell.k = "num" /\ cell.v # 0

\* lines 157-176: the value taken from the provider's metadata, None to compute
info_average(days, info) ==
    IF info.kind = "raise" THEN None
    ELSE IF days = 50 /\ usable_number(info.fiftyDayAverage)
    THEN Some(float(info.fiftyDayAverage.v))
    ELSE IF days = 200 /\ usable_number(info.twoHundredDayAverage)
    THEN Some(float(info.twoHundredDayAverage.v))
    ELSE None

get_moving_average(t0, days, net) ==
    LET n == normalize_ticker(upper(strip(t0)), net.us_test, net.nse_test)
    IN  IF n.raised THEN [raised |-> TRUE, value |-> None, probes |-> n.probes]
        ELSE [raised |-> FALSE,
              value |-> IF info_average(days, net.info) # None
                        THEN info_average(days, net.info)
                        ELSE _calculate_moving_average(days, net.history_1y,
                                                       net.download, net.history),
              probes |-> n.probes]

(***************************************************************************)
(* get_daily_series (stock_info.py 98-143)                                 *)
(*   returns [raised, closes, probes]; the dates are the index of the      *)
(*   closes and are not modelled                                           *)
(***************************************************************************)
\* lines 121-128: the loop stops at the first Close, an Adj Close is only noted
RECURSIVE series_col_loop(_, _)
series_col_loop(cols, col) ==
    IF cols = <<>> THEN col
    ELSE LET c == Head(cols)
         IN  IF last_label(c) = "Close" THEN Some(c)
             ELSE IF last_label(c) = "Adj Close" THEN series_col_loop(Tail(cols), Some(c))
             ELSE series_col_loop(Tail(cols), col)

\* lines 121-134
series_col(df) ==
    LET col == series_col_loop(df.cols, None)
    IN  IF col # None THEN col
        ELSE IF numeric_cols(df) = <<>> THEN None ELSE Some(numeric_cols(df)[1])

get_daily_series(t0, net) ==
    LET n == normalize_ticker(upper(strip(t0)), net.us_test, net.nse_test)
        df == IF net.download.kind = "raise" THEN Raise
              ELSE IF ~is_empty(net.download) THEN net.download
              ELSE net.history
    IN  IF n.raised \/ df.kind = "raise"
        THEN [raised |-> TRUE, closes |-> <<>>, probes |-> n.probes]
        ELSE IF is_empty(df) \/ series_col(df) = None
        THEN [raised |-> FALSE, closes |-> <<>>, probes |-> n.probes]
        ELSE [raised |-> FALSE,
              closes |-> dropna(to_numeric(column_of(df, series_col(df)[1]))),
              probes |-> n.probes]

(***************************************************************************)
(* get_all_averages (stock_info.py 241-359), step by step                  *)
(***************************************************************************)
\* lines 292-296, in call order
WindowSeq == <<5, 20, 50, 100, 200>>
AverageFields == <<"avg_5d", "avg_20d", "avg_50d", "avg_100d", "avg_200d">>

BUY_ALL == "Good to buy - price is below 200-week avg"
AVOID_ALL == "Do not buy - price is above 200-week avg"
EQUAL_ALL == "Price equals 200-week avg"
LATEST_PRICE_IS == "Latest price: "
INSUFFICIENT_ALL == "Insufficient data"

\* lines 247-288: [raised, value]
latest_price_of(download, history) ==
    LET df == IF download.kind = "raise" THEN Raise
              ELSE IF ~is_empty(download) THEN download
              ELSE history
    IN  IF df.kind = "raise" \/ is_empty(df) \/ daily_col(df) = None
        THEN [raised |-> TRUE, value |-> None]
        ELSE LET series == dropna(to_numeric(column_of(df, daily_col(df)[1])))
             IN  IF series = <<>> THEN [raised |-> TRUE, value |-> None]
                 ELSE [raised |-> FALSE, value |-> Some(series[Len(series)])]

\* lines 304-327
week_52(info, field) ==
    IF info.kind = "raise" THEN None
    ELSE IF usable_number(info[field]) THEN Some(float(info[field].v))
    ELSE None

\* lines 332-344; latest_price is a float here
all_rec(avg_200w, latest_price) ==
    IF avg_200w = None \/ latest_price = None
    THEN [rec_type |-> "neutral",
          rec_text |-> IF latest_price # None /\ latest_price[1] # 0
                       THEN <<LATEST_PRICE_IS, latest_price[1]>>
                       ELSE <<INSUFFICIENT_ALL>>]
    ELSE IF lt(latest_price[1], avg_200w[1])
    THEN [rec_type |-> "buy", rec_text |-> <<BUY_ALL>>]
    ELSE IF gt(latest_price[1], avg_200w[1])
    THEN [rec_type |-> "avoid", rec_text |-> <<AVOID_ALL>>]
    ELSE [rec_type |-> "neutral", rec_text |-> <<EQUAL_ALL>>]

\* lines 346-359
all_record(info) ==
    LET avg_200w == result_200w[1].avg_200_week
        rec == all_rec(avg_200w, latest)
    IN  [raised |-> FALSE,
         ticker |-> norm[1],
         latest_price |-> latest,
         avg_5d |-> avgs[1], avg_20d |-> avgs[2], avg_50d |-> avgs[3],
         avg_100d |-> avgs[4], avg_200d |-> avgs[5],
         avg_200w |-> avg_200w,
         week_52_high |-> week_52(info, "fiftyTwoWeekHigh"),
         week_52_low |-> week_52(info, "fiftyTwoWeekLow"),
         rec_type |-> rec.rec_type,
         rec_text |-> rec.rec_text]

(***************************************************************************)
(* The series queries of each function, in the order they are sent         *)
(*   a query is [endpoint, window, interval, answer]: "download" is the    *)
(*   bulk endpoint yf.download, "history" the per-symbol Ticker.history    *)
(***************************************************************************)
query(endpoint, window, interval, answer) ==
    [endpoint |-> endpoint, window |-> window, interval |-> interval, answer |-> answer]

\* yf.download(...), and Ticker.history(...) with the same window when the
\* first table is None or empty (lines 17-29, 105-115, 195-206, 248-258)
download_then_history(window, interval, download, history) ==
    IF download.kind = "raise" \/ ~is_empty(download)
    THEN <<query("download", window, interval, download)>>
    ELSE <<query("download", window, interval, download),
           query("history", window, interval, history)>>

\* get_200_week_average, lines 13-29
weekly_calls(download, history) ==
    download_then_history("220 weeks", "1wk", download, history)

\* _calculate_moving_average, lines 187-206
daily_calls(days, history_1y, download, history) ==
    IF days >= LongWindow
    THEN <<query("history", "1y", "1d", history_1y)>>
    ELSE download_then_history("max(100, days + 50) days", "1d", download, history)

\* get_moving_average, lines 149-180
moving_calls(t0, days, net) ==
    IF normalize_ticker(upper(strip(t0)), net.us_test, net.nse_test).raised THEN <<>>
    ELSE IF info_average(days, net.info) # None THEN <<>>
    ELSE daily_calls(days, net.history_1y, net.download, net.history)

\* get_daily_series, lines 104-115
series_calls(t0, net) ==
    IF normalize_ticker(upper(strip(t0)), net.us_test, net.nse_test).raised THEN <<>>
    ELSE download_then_history("1y", "1d", net.download, net.history)

\* get_all_averages, lines 248-258
latest_calls(download, history) ==
    download_then_history("10d", "1d", download, history)

(***************************************************************************)
(* What the provider may answer: the tables the calls are checked on       *)
(***************************************************************************)
\* a series may be this much longer than the window it is averaged over
Slack == 1

\* the windows of get_all_averages (stock_info.py 292-296)
Windows == {5, 20, 50, 100, 200}

column(name, numeric, vals) == [name |-> name, numeric |-> numeric, vals |-> vals]

\* a price column of len cells: pat[1] first, pat[3] last, pat[2] between
prices(len, pat) ==
    [i \in 1..len |-> Num(IF i = len THEN pat[3] ELSE IF i = 1 THEN pat[1] ELSE pat[2])]

\* the same cells with every price raised by d (another column of the table)
raised_by(cells, d) ==
    [i \in 1..Len(cells) |-> IF cells[i].k = "num" THEN Num(cells[i].v + d) ELSE cells[i]]

\* the same cells, the first one missing
first_missing(cells) == [i \in 1..Len(cells) |-> IF i = 1 THEN NaN ELSE cells[i]]

\* the same cells read from text: numbers as strings, the first one no number
as_text(cells) ==
    [i \in 1..Len(cells) |-> IF i = 1 THEN Str ELSE NumStr(cells[i].v)]

all_missing(cells) == [i \in 1..Len(cells) |-> NaN]

Patterns == {<<2, 2, 2>>, <<1, 2, 3>>, <<3, 2, 1>>}

\* the shapes of table yfinance answers with
Layouts == {"close", "adjusted", "adjusted_first", "multi", "text"}

table(layout, cells) ==
    CASE layout = "close" ->
           Frame(<<column(<<"Close">>, TRUE, cells)>>)
      [] layout = "adjusted" ->
           Frame(<<column(<<"Open">>, TRUE, raised_by(cells, 1)),
                   column(<<"Close">>, TRUE, raised_by(cells, 2)),
                   column(<<"Adj Close">>, TRUE, cells),
                   column(<<"Volume">>, TRUE, raised_by(cells, 7))>>)
      [] layout = "adjusted_first" ->
           Frame(<<column(<<"Adj Close">>, TRUE, cells),
                   column(<<"Close">>, TRUE, raised_by(cells, 2)),
                   column(<<"Open">>, TRUE, raised_by(cells, 1))>>)
      [] layout = "multi" ->
           Frame(<<column(<<"Close", "AB.NS">>, TRUE, cells),
                   column(<<"High", "AB.NS">>, TRUE, raised_by(cells, 1))>>)
      [] layout = "text" ->
           Frame(<<column(<<"Close">>, FALSE, as_text(cells))>>)
      [] layout = "missing" ->
           Frame(<<column(<<"Close">>, TRUE, first_missing(cells))>>)
      [] layout = "all_missing" ->
           Frame(<<column(<<"Close">>, TRUE, all_missing(cells))>>)
      [] layout = "open_only" ->
           Frame(<<column(<<"Open">>, TRUE, cells)>>)
      [] layout = "no_price" ->
           Frame(<<column(<<"Date">>, FALSE, all_missing(cells))>>)

EmptyFrame == Frame(<<>>)

\* the lengths around a window: too short by one, exact, longer
Lengths(window) == {window - 1, window} \cup {window + Slack}

\* the tables a first query may answer with, for a series averaged over window
Tables(window) ==
    {Raise, NoFrame, EmptyFrame}
    \cup {table(l, prices(n, p)) : l \in Layouts, n \in Lengths(window) \ {0}, p \in Patterns}
    \cup {table(l, prices(window, <<1, 2, 3>>)) : l \in {"missing", "all_missing", "no_price"}}

\* the tables the second query (the per-symbol endpoint) may answer with
Fallbacks(window) ==
    {Raise, EmptyFrame}
    \cup {table("close", prices(n, <<3, 3, 1>>)) : n \in Lengths(window) \ {0}}

ProbeData == table("close", prices(1, <<2, 2, 2>>))
Probes == {Raise, EmptyFrame, ProbeData}

\* tk.info
info_dict(d50, d200, hi, lo) ==
    [kind |-> "info", fiftyDayAverage |-> d50, twoHundredDayAverage |-> d200,
     fiftyTwoWeekHigh |-> hi, fiftyTwoWeekLow |-> lo]
Infos ==
    {Raise,
     info_dict(Num(7), Num(8), Num(9), Num(1)),
     info_dict(Num(0), NaN, Str, NaN)}

\* the tickers a user may type
Tickers ==
    {<<"A", "B">>, <<" ", "a", "b", " ">>, <<"R">>,
     <<"r", ".", "N", "S">>, <<"^", "N">>, <<"B", "-", "A">>}

(***************************************************************************)
(* The average engine applied to one input                                 *)
(***************************************************************************)
no_net == [us_test |-> EmptyFrame, nse_test |-> EmptyFrame, info |-> Raise,
           history_1y |-> EmptyFrame, download |-> EmptyFrame, history |-> EmptyFrame]

WeeklyInputs ==
    {[fn |-> "get_200_week_average", ticker |-> t, days |-> WeeksWindow,
      net |-> [no_net EXCEPT !.download = d, !.history = h]] :
        t \in {<<"A", "B">>}, d \in Tables(WeeksWindow) \cup Tables(1),
        h \in Fallbacks(WeeksWindow)}

CalculateInputs(k) ==
    {[fn |-> "_calculate_moving_average", ticker |-> t, days |-> k,
      net |-> [no_net EXCEPT !.history_1y = y, !.download = d, !.history = h]] :
        t \in {<<"A", "B">>}, y \in Fallbacks(k), d \in Tables(k), h \in Fallbacks(k)}

MovingInputs(k) ==
    {[fn |-> "get_moving_average", ticker |-> t, days |-> k,
      net |-> [us_test |-> u, nse_test |-> EmptyFrame, info |-> i,
               history_1y |-> d, download |-> d, history |-> h]] :
        t \in {<<"a", "b">>, <<"^", "N">>}, u \in {Raise, ProbeData}, i \in Infos,
        d \in Tables(k), h \in {Raise, EmptyFrame}}

NormalizeInputs ==
    {[fn |-> "normalize_ticker", ticker |-> t, days |-> 0,
      net |-> [no_net EXCEPT !.us_test = u, !.nse_test = n]] :
        t \in Tickers, u \in Probes, n \in Probes}

\* get_daily_series: short tables of every layout
SeriesInputs ==
    {[fn |-> "get_daily_series", ticker |-> t, days |-> 0,
      net |-> [no_net EXCEPT !.us_test = u, !.download = d, !.history = h]] :
        t \in {<<"a", "b">>, <<"^", "N">>}, u \in {Raise, ProbeData},
        d \in Tables(2), h \in Fallbacks(2)}

\* the latest price of get_all_averages (lines 247-288): short tables of every layout
LatestInputs ==
    {[fn |-> "get_all_averages.latest_price", ticker |-> t, days |-> 0,
      net |-> [no_net EXCEPT !.download = d, !.history = h]] :
        t \in {<<"^", "N">>}, d \in Tables(2), h \in Fallbacks(2)}

EngineInputs ==
    WeeklyInputs
    \cup NormalizeInputs
    \cup SeriesInputs
    \cup LatestInputs
    \cup UNION {CalculateInputs(k) : k \in Windows}
    \cup UNION {MovingInputs(k) : k \in Windows}

idle_request ==
    /\ handler = "idle" /\ raw = <<>> /\ pc = "idle" /\ probes = <<>> /\ norm = None
    /\ latest = None /\ avgs = <<>> /\ result_200w = None /\ failed = {}
    /\ result = None /\ response = None

idle_batch ==
    /\ batch = "idle" /\ filtered = <<>> /\ task = <<>> /\ upstream = <<>>
    /\ results = <<>> /\ returned = FALSE

\* the request threads that may be inside fetch_nse_csv at once
Callers == {"a", "b"}

outside == [pc |-> "outside", now |-> 0, df |-> None, served |-> None]

idle_directory ==
    /\ nse_cache = [data |-> None, timestamp |-> None] /\ clock = 0
    /\ requests = 0 /\ lookup = None
    /\ callers = [t \in Callers |-> outside] /\ data_requested_at = None

idle_engine ==
    /\ fn = "none" /\ arg_ticker = <<>> /\ arg_days = 0 /\ arg_net = no_net /\ ret = None
    /\ calls = <<>>

EngineInit ==
    /\ \E in \in EngineInputs :
          /\ fn = in.fn /\ arg_ticker = in.ticker /\ arg_days = in.days /\ arg_net = in.net
    /\ ret = None
    /\ calls = <<>>
    /\ idle_request /\ idle_batch /\ idle_directory

call_get_200_week_average ==
    /\ fn = "get_200_week_average" /\ ret = None
    /\ ret' = Some(get_200_week_average(arg_ticker, arg_net.download, arg_net.history))
    /\ calls' = weekly_calls(arg_net.download, arg_net.history)
    /\ UNCHANGED <<fn, arg_ticker, arg_days, arg_net, request_vars, batch_vars, directory_vars>>

call_calculate_moving_average ==
    /\ fn = "_calculate_moving_average" /\ ret = None
    /\ ret' = Some(_calculate_moving_average(arg_days, arg_net.history_1y,
                                             arg_net.download, arg_net.history))
    /\ calls' = daily_calls(arg_days, arg_net.history_1y, arg_net.download, arg_net.history)
    /\ UNCHANGED <<fn, arg_ticker, arg_days, arg_net, request_vars, batch_vars, directory_vars>>

call_get_moving_average ==
    /\ fn = "get_moving_average" /\ ret = None
    /\ ret' = Some(get_moving_average(arg_ticker, arg_days, arg_net))
    /\ calls' = moving_calls(arg_ticker, arg_days, arg_net)
    /\ UNCHANGED <<fn, arg_ticker, arg_days, arg_net, request_vars, batch_vars, directory_vars>>

call_normalize_ticker ==
    /\ fn = "normalize_ticker" /\ ret = None
    /\ ret' = Some(normalize_ticker(arg_ticker, arg_net.us_test, arg_net.nse_test))
    /\ calls' = <<>>
    /\ UNCHANGED <<fn, arg_ticker, arg_days, arg_net, request_vars, batch_vars, directory_vars>>

call_get_daily_series ==
    /\ fn = "get_daily_series" /\ ret = None
    /\ ret' = Some(get_daily_series(arg_ticker, arg_net))
    /\ calls' = series_calls(arg_ticker, arg_net)
    /\ UNCHANGED <<fn, arg_ticker, arg_days, arg_net, request_vars, batch_vars, directory_vars>>

\* get_all_averages up to its latest price (stock_info.py 247-288)
call_latest_price_of ==
    /\ fn = "get_all_averages.latest_price" /\ ret = None
    /\ ret' = Some(latest_price_of(arg_net.download, arg_net.history))
    /\ calls' = latest_calls(arg_net.download, arg_net.history)
    /\ UNCHANGED <<fn, arg_ticker, arg_days, arg_net, request_vars, batch_vars, directory_vars>>

EngineNext ==
    \/ call_normalize_ticker
    \/ call_get_daily_series
    \/ call_latest_price_of
    \/ call_get_200_week_average
    \/ call_calculate_moving_average
    \/ call_get_moving_average

SpecEngine == EngineInit /\ [][EngineNext]_vars

(***************************************************************************)
(* One request for one ticker (app.py: home 12-33, stock_details 52-68)    *)
(***************************************************************************)
\* what the provider answers within a request: short tables
ShortTables ==
    {Raise, EmptyFrame}
    \cup {table("close", prices(2, p)) : p \in Patterns \cup {<<0, 0, 0>>}}
    \cup {table("all_missing", prices(2, <<1, 2, 3>>))}

\* the weekly tables of the get_200_week_average call of get_all_averages
WeeklyShortTables ==
    {Raise, EmptyFrame, table("close", prices(2, <<2, 2, 2>>)),
     table("all_missing", prices(2, <<1, 2, 3>>))}

\* the tables of the get_daily_series call that ends a request
ChartTables == {Raise, EmptyFrame, table("adjusted", prices(2, <<1, 2, 3>>))}

\* the daily tables of one get_moving_average call of the request
WindowTables(k) == {EmptyFrame, table("close", prices(k, <<2, 2, 2>>))}

RequestInit == idle_engine /\ idle_request /\ idle_batch /\ idle_directory

\* a handler's except clause: jsonify({"error": ...}), 500 / flash(...)
respond_error(status) == [status |-> status, body |-> "error"]

\* lines 55-58 (15-18): the ticker is read and stripped, an empty one rejected
receive_request ==
    /\ pc = "idle"
    /\ \E h \in {"home", "stock_details"}, t \in Tickers \cup {<<" ">>} :
          /\ handler' = h
          /\ raw' = strip(t)
          /\ IF strip(t) = <<>>
             THEN /\ response' = Some(respond_error(400))
                  /\ pc' = "done"
             ELSE /\ response' = None
                  /\ pc' = IF h = "home" THEN "home_weekly" ELSE "normalize"
    /\ UNCHANGED <<probes, norm, latest, avgs, result_200w, failed, result,
                   engine_vars, batch_vars, directory_vars>>

\* get_all_averages raises, and stock_details answers 500 (app.py 67-68)
all_averages_raise(error) ==
    /\ result' = Some([raised |-> TRUE, error |-> error])
    /\ response' = Some(respond_error(500))
    /\ pc' = "done"

\* stock_info.py 243-244
normalize_step ==
    /\ pc = "normalize"
    /\ \E u \in Probes, n \in Probes :
          LET r == normalize_ticker(upper(strip(raw)), u, n)
          IN  /\ probes' = probes \o r.probes
              /\ IF r.raised
                 THEN /\ all_averages_raise("normalize_ticker")
                      /\ UNCHANGED norm
                      /\ failed' = failed \cup {"normalize"}
                 ELSE /\ norm' = Some(r.value)
                      /\ pc' = "latest"
                      /\ UNCHANGED <<result, response, failed>>
    /\ UNCHANGED <<handler, raw, latest, avgs, result_200w,
                   engine_vars, batch_vars, directory_vars>>

\* stock_info.py 247-288
latest_step ==
    /\ pc = "latest"
    /\ \E d \in ShortTables, h \in {Raise, EmptyFrame, table("close", prices(1, <<3, 3, 3>>))} :
          LET r == latest_price_of(d, h)
          IN  IF r.raised
              THEN /\ all_averages_raise("Failed to fetch latest price")
                   /\ failed' = failed \cup {"latest_price"}
                   /\ UNCHANGED latest
              ELSE /\ latest' = r.value
                   /\ pc' = "averages"
                   /\ UNCHANGED <<result, response, failed>>
    /\ UNCHANGED <<handler, raw, probes, norm, avgs, result_200w,
                   engine_vars, batch_vars, directory_vars>>

\* stock_info.py 292-296: the next get_moving_average(normalized_ticker, days)
average_step ==
    /\ pc = "averages"
    /\ LET i == Len(avgs) + 1
           k == WindowSeq[i]
       IN  \E u \in {Raise, ProbeData}, inf \in Infos, d \in WindowTables(k) :
              LET r == get_moving_average(norm[1], k,
                          [us_test |-> u, nse_test |-> EmptyFrame, info |-> inf,
                           history_1y |-> d, download |-> d, history |-> EmptyFrame])
              IN  /\ probes' = probes \o r.probes
                  /\ IF r.raised
                     THEN /\ all_averages_raise("Failed to calculate averages")
                          /\ failed' = failed \cup {"normalize"}
                          /\ UNCHANGED avgs
                     ELSE /\ avgs' = Append(avgs, r.value)
                          /\ failed' = IF r.value = None
                                       THEN failed \cup {AverageFields[i]} ELSE failed
                          /\ pc' = IF i = Len(WindowSeq) THEN "weekly" ELSE "averages"
                          /\ UNCHANGED <<result, response>>
    /\ UNCHANGED <<handler, raw, norm, latest, result_200w,
                   engine_vars, batch_vars, directory_vars>>

\* stock_info.py 299-300: get_200_week_average(ticker)
weekly_step ==
    /\ pc = "weekly"
    /\ \E d \in WeeklyShortTables, h \in {Raise, EmptyFrame} :
          LET r == get_200_week_average(upper(strip(raw)), d, h)
          IN  /\ result_200w' = Some(r)
              /\ IF r.raised
                 THEN /\ all_averages_raise("Failed to calculate averages")
                      /\ failed' = failed \cup {"avg_200w"}
                 ELSE /\ pc' = "info"
                      /\ failed' = IF r.avg_200_week = None
                                   THEN failed \cup {"avg_200w"} ELSE failed
                      /\ UNCHANGED <<result, response>>
    /\ UNCHANGED <<handler, raw, probes, norm, latest, avgs,
                   engine_vars, batch_vars, directory_vars>>

\* stock_info.py 303-359: the 52-week range, the recommendation, the record
info_step ==
    /\ pc = "info"
    /\ \E inf \in Infos : result' = Some(all_record(inf))
    /\ pc' = "daily"
    /\ UNCHANGED <<handler, raw, probes, norm, latest, avgs, result_200w, failed, response,
                   engine_vars, batch_vars, directory_vars>>

\* app.py 21 (home): result = get_200_week_average(ticker)
home_weekly_step ==
    /\ pc = "home_weekly"
    /\ \E d \in ShortTables, h \in {Raise, EmptyFrame} :
          LET r == get_200_week_average(raw, d, h)
          IN  /\ result_200w' = Some(r)
              /\ IF r.raised
                 THEN /\ response' = Some(respond_error(200))
                      /\ pc' = "done"
                 ELSE /\ pc' = "daily"
                      /\ UNCHANGED response
    /\ UNCHANGED <<handler, raw, probes, norm, latest, avgs, failed, result,
                   engine_vars, batch_vars, directory_vars>>

\* app.py 63-66 (24-31): get_daily_series(ticker, period="1y"), then the answer
daily_step ==
    /\ pc = "daily"
    /\ \E u \in Probes, n \in {EmptyFrame, ProbeData}, d \in ChartTables :
          LET r == get_daily_series(raw, [no_net EXCEPT !.us_test = u, !.nse_test = n,
                                                        !.download = d])
          IN  /\ probes' = probes \o r.probes
              /\ response' =
                    IF r.raised
                    THEN Some(respond_error(IF handler = "home" THEN 200 ELSE 500))
                    ELSE Some([status |-> 200, body |-> "result",
                               result |-> IF handler = "home" THEN result_200w[1]
                                          ELSE result[1],
                               daily_closes |-> r.closes])
    /\ pc' = "done"
    /\ UNCHANGED <<handler, raw, norm, latest, avgs, result_200w, failed, result,
                   engine_vars, batch_vars, directory_vars>>

Next ==
    \/ receive_request
    \/ normalize_step
    \/ latest_step
    \/ average_step
    \/ weekly_step
    \/ info_step
    \/ home_weekly_step
    \/ daily_step

Spec == RequestInit /\ [][Next]_vars

(***************************************************************************)
(* The batch fetchers (fno_stocks.py 51-130, nifty_next_50_stocks.py       *)
(* 61-142); the two functions differ only in the watch-list they read      *)
(***************************************************************************)
\* ThreadPoolExecutor(max_workers=10)
max_workers == 10

\* members of the watch-lists, in list order
FNO_STOCKS ==
    <<<<"A", "B", "B">>, <<"B", "A", "J", "A", "J", "-", "A", "U", "T", "O">>,
      <<"M", "&", "M">>, <<"V", "B", "L">>>>
NIFTY_NEXT_50_STOCKS ==
    <<<<"A", "B", "B">>, <<"V", "B", "L">>, <<"V", "E", "D", "L">>>>

watch_list(name) == IF name = "fno" THEN FNO_STOCKS ELSE NIFTY_NEXT_50_STOCKS

\* the search queries tried
Queries == {<<>>, <<" ">>, <<"a">>, <<" ", "v", " ">>, <<"V", "E">>, <<"Z">>}

\* lines 59-62
filter_stocks(stocks, search_query) ==
    IF search_query # <<>>
    THEN SelectSeq(stocks, LAMBDA stock : startswith(stock, upper(strip(search_query))))
    ELSE stocks

entry(symbol, price, avg_200w, status) ==
    [symbol |-> symbol, price |-> price, avg_200w |-> avg_200w, status |-> status]

\* line 70: nse_ticker = symbol + ".NS", the ticker of the price query
nse_ticker(symbol) == dot_NS(symbol)

\* fetch_stock_data up to the latest price (lines 68-93 and 109-122):
\* the entry when there is no price, the price otherwise
price_of(symbol, history) ==
    IF history.kind = "raise"
    THEN [priced |-> FALSE, entry |-> entry(symbol, None, None, "error")]
    ELSE LET col == IF is_empty(history) THEN None
                    ELSE close_col_loop(history.cols, None)
             series == IF col = None THEN <<>>
                       ELSE dropna(to_numeric(column_of(history, col[1])))
         IN  IF series # <<>>
             THEN [priced |-> TRUE, latest_price |-> series[Len(series)]]
             ELSE [priced |-> FALSE, entry |-> entry(symbol, None, None, "no_data")]

priced_entry_one_try(symbol, latest_price, download, history) ==
    IF get_200_week_average(symbol, download, history).raised
    THEN entry(symbol, None, None, "error")
    ELSE entry(symbol, Some(latest_price),
               get_200_week_average(symbol, download, history).avg_200_week, "success")

\* fetch_stock_data from the price on (lines 94-107): the 200-week average is
\* best-effort
priced_entry(symbol, latest_price, download, history) ==
    LET avg_info == get_200_week_average(symbol, download, history)
    IN  entry(symbol, Some(latest_price),
              IF avg_info.raised THEN None ELSE avg_info.avg_200_week,
              "success")

\* what the provider answers to the calls of one symbol
PriceTables ==
    {Raise, EmptyFrame, table("close", prices(1, <<2, 2, 2>>)),
     table("open_only", prices(1, <<2, 2, 2>>))}
WeeklyAnswers ==
    {<<Raise, EmptyFrame>>, <<EmptyFrame, EmptyFrame>>,
     <<table("close", prices(2, <<1, 2, 3>>)), EmptyFrame>>}

BatchInit == idle_engine /\ idle_request /\ idle_batch /\ idle_directory

queued == [state |-> "queued", latest_price |-> None, entry |-> None]
not_asked == [price |-> None, weekly |-> None, price_ticker |-> None, weekly_ticker |-> None]

in_flight == {i \in 1..Len(task) : task[i].state \in {"price", "avg"}}

\* the call: the list is filtered and every symbol submitted (lines 59-64, 126)
start_batch ==
    /\ batch = "idle"
    /\ \E name \in {"fno", "nifty_next_50"}, search_query \in Queries :
          /\ batch' = name
          /\ filtered' = filter_stocks(watch_list(name), search_query)
          /\ task' = [i \in 1..Len(filter_stocks(watch_list(name), search_query)) |-> queued]
          /\ upstream' = [i \in 1..Len(filter_stocks(watch_list(name), search_query)) |->
                            not_asked]
    /\ results' = <<>>
    /\ returned' = FALSE
    /\ UNCHANGED <<engine_vars, request_vars, directory_vars>>

slot_is_always_free == TRUE

\* the pool has a worker that runs no fetch_stock_data
slot_is_free == Cardinality(in_flight) < max_workers

\* a free worker takes the oldest submitted symbol and asks for its price
dispatch(i) ==
    /\ batch # "idle"
    /\ task[i].state = "queued"
    /\ \A j \in 1..(i - 1) : task[j].state # "queued"
    /\ slot_is_free
    /\ task' = [task EXCEPT ![i].state = "price"]
    /\ UNCHANGED <<batch, filtered, upstream, results, returned,
                   engine_vars, request_vars, directory_vars>>

\* tk.history(period="5d") returns or raises (lines 73-93)
price_returns(i) ==
    /\ task[i].state = "price"
    /\ \E history \in PriceTables :
          LET r == price_of(filtered[i], history)
          IN  /\ upstream' = [upstream EXCEPT ![i].price = Some(history),
                                              ![i].price_ticker = Some(nse_ticker(filtered[i]))]
              /\ task' = [task EXCEPT ![i] =
                    IF r.priced
                    THEN [state |-> "avg", latest_price |-> Some(r.latest_price),
                          entry |-> None]
                    ELSE [state |-> "done", latest_price |-> None, entry |-> Some(r.entry)]]
    /\ UNCHANGED <<batch, filtered, results, returned,
                   engine_vars, request_vars, directory_vars>>

\* get_200_week_average(symbol) returns or raises (lines 95-107)
avg_returns(i) ==
    /\ task[i].state = "avg"
    /\ \E w \in WeeklyAnswers :
          /\ upstream' = [upstream EXCEPT ![i].weekly = Some(w),
                                          ![i].weekly_ticker = Some(weekly_ticker(filtered[i]))]
          /\ task' = [task EXCEPT ![i] =
                [state |-> "done", latest_price |-> task[i].latest_price,
                 entry |-> Some(priced_entry(filtered[i], task[i].latest_price[1],
                                             w[1], w[2]))]]
    /\ UNCHANGED <<batch, filtered, results, returned,
                   engine_vars, request_vars, directory_vars>>

\* as_completed yields a finished future: results.append(future.result())
collect(i) ==
    /\ task[i].state = "done"
    /\ results' = Append(results, task[i].entry[1])
    /\ task' = [task EXCEPT ![i].state = "collected"]
    /\ UNCHANGED <<batch, filtered, upstream, returned,
                   engine_vars, request_vars, directory_vars>>

\* every future was yielded: return results
return_batch ==
    /\ batch # "idle" /\ ~returned
    /\ \A i \in 1..Len(task) : task[i].state = "collected"
    /\ returned' = TRUE
    /\ UNCHANGED <<batch, filtered, task, upstream, results,
                   engine_vars, request_vars, directory_vars>>

BatchNext ==
    \/ start_batch
    \/ \E i \in 1..Len(task) : dispatch(i)
    \/ \E i \in 1..Len(task) : price_returns(i)
    \/ \E i \in 1..Len(task) : avg_returns(i)
    \/ \E i \in 1..Len(task) : collect(i)
    \/ return_batch

SpecBatch == BatchInit /\ [][BatchNext]_vars

(***************************************************************************)
(* The worker pool of a batch fetch on a watch-list longer than the pool   *)
(* (fno_stocks.py 124-130, nifty_next_50_stocks.py 136-142).  A pipeline   *)
(* fetch_stock_data(symbol) is one step of its worker here.  The provider  *)
(* may be slow, or hang, for the first MaxSlow symbols of the list; the    *)
(* pipelines of the other symbols end in the order they were submitted.    *)
(***************************************************************************)
\* how many symbols the provider may be slow for
MaxSlow == 2

\* eleven members of each watch-list, in list order: one more than the workers
FNO_STOCKS_11 ==
    <<<<"A", "B", "B">>,
      <<"B", "D", "L">>,
      <<"B", "E", "L">>,
      <<"B", "S", "E">>,
      <<"D", "L", "F">>,
      <<"H", "A", "L">>,
      <<"I", "E", "X">>,
      <<"I", "O", "C">>,
      <<"I", "T", "C">>,
      <<"K", "E", "I">>,
      <<"L", "T", "F">>>>
NIFTY_NEXT_50_STOCKS_11 ==
    <<<<"A", "B", "B">>,
      <<"A", "D", "A", "N", "I", "E", "N", "S", "O", "L">>,
      <<"A", "D", "A", "N", "I", "G", "R", "E", "E", "N">>,
      <<"A", "D", "A", "N", "I", "P", "O", "W", "E", "R">>,
      <<"A", "M", "B", "U", "J", "A", "C", "E", "M">>,
      <<"B", "A", "J", "A", "J", "H", "F", "L">>,
      <<"B", "A", "J", "A", "J", "H", "L", "D", "N", "G">>,
      <<"B", "A", "N", "K", "B", "A", "R", "O", "D", "A">>,
      <<"B", "P", "C", "L">>,
      <<"B", "R", "I", "T", "A", "N", "N", "I", "A">>,
      <<"B", "O", "S", "C", "H", "L", "T", "D">>>>

long_watch_list(name) == IF name = "fno" THEN FNO_STOCKS_11 ELSE NIFTY_NEXT_50_STOCKS_11

\* what the provider answers to a pipeline of the pool
PoolPriceTables == {table("close", prices(1, <<2, 2, 2>>))}
PoolWeeklyAnswer == <<table("close", prices(2, <<1, 2, 3>>)), EmptyFrame>>

PoolInit == idle_engine /\ idle_request /\ idle_batch /\ idle_directory

\* the call, with no search query: every symbol is submitted (lines 59, 126)
start_pool ==
    /\ batch = "idle"
    /\ \E name \in {"fno", "nifty_next_50"} :
          /\ batch' = name
          /\ filtered' = long_watch_list(name)
          /\ task' = [i \in 1..Len(long_watch_list(name)) |-> queued]
          /\ upstream' = [i \in 1..Len(long_watch_list(name)) |-> not_asked]
    /\ results' = <<>>
    /\ returned' = FALSE
    /\ UNCHANGED <<engine_vars, request_vars, directory_vars>>

\* the symbols submitted before i that have not been collected
still_open_before(i) == {j \in 1..(i - 1) : task[j].state # "collected"}

\* fetch_stock_data(symbol) as one step (lines 67-122): what is known of the
\* provider's answers afterwards, and the finished future
fetch_stock_data(symbol, history) ==
    LET r == price_of(symbol, history)
    IN  [upstream |-> [price |-> Some(history),
                       weekly |-> IF r.priced THEN Some(PoolWeeklyAnswer) ELSE None,
                       price_ticker |-> Some(nse_ticker(symbol)),
                       weekly_ticker |-> IF r.priced THEN Some(weekly_ticker(symbol))
                                         ELSE None],
         task |-> [state |-> "done",
                   latest_price |-> IF r.priced THEN Some(r.latest_price) ELSE None,
                   entry |-> Some(IF r.priced
                                  THEN priced_entry(symbol, r.latest_price,
                                                    PoolWeeklyAnswer[1], PoolWeeklyAnswer[2])
                                  ELSE r.entry)]]

\* the same for every symbol of the long lists, computed once
PoolOutcomes ==
    [name \in {"fno", "nifty_next_50"} |->
        [i \in 1..Len(long_watch_list(name)) |->
            [history \in PoolPriceTables |->
                fetch_stock_data(long_watch_list(name)[i], history)]]]

\* a worker's fetch_stock_data(symbol) returns
worker_returns(i) ==
    /\ task[i].state = "price"
    /\ still_open_before(i) \subseteq 1..MaxSlow
    /\ \E history \in PoolPriceTables :
          /\ upstream' = [upstream EXCEPT ![i] = PoolOutcomes[batch][i][history].upstream]
          /\ task' = [task EXCEPT ![i] = PoolOutcomes[batch][i][history].task]
    /\ UNCHANGED <<batch, filtered, results, returned,
                   engine_vars, request_vars, directory_vars>>

\* as_completed yields the finished future (lines 127-128)
collect_in_pool(i) ==
    /\ still_open_before(i) \subseteq 1..MaxSlow
    /\ collect(i)

PoolNext ==
    \/ start_pool
    \/ \E i \in 1..Len(task) : dispatch(i)
    \/ \E i \in 1..Len(task) : worker_returns(i)
    \/ \E i \in 1..Len(task) : collect_in_pool(i)
    \/ return_batch

\* every upstream call returns, the executor and the caller's loop keep running
SpecPool == PoolInit /\ [][PoolNext]_vars /\ WF_vars(PoolNext)

(***************************************************************************)
(* Claims about the average engine and the single-ticker requests          *)
(***************************************************************************)
\* the sum of s[lo..hi]
RECURSIVE SumRange(_, _, _)
SumRange(s, lo, hi) ==
    IF lo > hi THEN 0
    ELSE IF lo = hi THEN s[lo]
    ELSE SumRange(s, lo, (lo + hi) \div 2) + SumRange(s, (lo + hi) \div 2 + 1, hi)

\* avg is the arithmetic mean of the last k values of s
IsMeanOfLast(avg, s, k) ==
    /\ avg # None
    /\ avg[1].num * k = SumRange(s, Len(s) - k + 1, Len(s)) * avg[1].den

Min(a, b) == IF a < b THEN a ELSE b

AllAveragesDone == handler = "stock_details" /\ result # None

\* C2: in get_all_averages a failure to obtain the latest price raises, and a
\* failure to obtain any one average (5d .. 200d, the 200-week average, "no weekly
\* data" included) only makes that field null: the record is still returned, with
\* the latest price.  (Failures of normalize_ticker itself are left aside.)
C2_SubAveragesAreBestEffort ==
    (AllAveragesDone /\ "normalize" \notin failed) =>
        IF "latest_price" \in failed
        THEN result[1].raised
        ELSE /\ ~result[1].raised
             /\ result[1].latest_price = latest
             /\ latest # None
             /\ \A f \in failed : result[1][f] = None

\* the recommendation the claim prescribes for a price and a non-null average
KindFor(p, a) ==
    IF p * a.den < a.num THEN "buy"
    ELSE IF p * a.den > a.num THEN "avoid"
    ELSE "neutral"

Weekly200Returned == result_200w # None /\ ~result_200w[1].raised
AllAveragesReturned == AllAveragesDone /\ ~result[1].raised

\* C3: with the latest price and the 200-week average both non-null, the kind is
\* buy iff price < avg, avoid iff price > avg, neutral iff price = avg, and on
\* equality the text is the equality message, in get_200_week_average and in
\* get_all_averages.
C3_RecommendationIsExact ==
    /\ (Weekly200Returned /\ result_200w[1].avg_200_week # None
            /\ result_200w[1].latest_price # None) =>
          LET r == result_200w[1]
              kind == KindFor(r.latest_price[1], r.avg_200_week[1])
          IN  /\ r.rec_type = kind
              /\ (kind = "neutral" => r.rec_text = <<EQUAL_200W>>)
              /\ (kind # "neutral" => r.rec_text \in {<<BUY_200W>>, <<AVOID_200W>>})
    /\ (AllAveragesReturned /\ result[1].avg_200w # None /\ result[1].latest_price # None) =>
          LET r == result[1]
              kind == KindFor(r.latest_price[1], r.avg_200w[1])
          IN  /\ r.rec_type = kind
              /\ (kind = "neutral" => r.rec_text = <<EQUAL_ALL>>)
              /\ (kind # "neutral" => r.rec_text \in {<<BUY_ALL>>, <<AVOID_ALL>>})

\* C3's case: get_all_averages returned with the latest price equal to the average
C3_Witness ==
    /\ AllAveragesReturned
    /\ result[1].avg_200w # None
    /\ result[1].latest_price[1] * result[1].avg_200w[1].den = result[1].avg_200w[1].num
    /\ result_200w[1].rec_type = "neutral"

\* C4: with a null 200-week average the recommendation is neutral and its text is
\* the insufficient-data message, whatever the latest price, in
\* get_200_week_average and in get_all_averages.
C4_NullAverageIsInsufficient ==
    /\ (Weekly200Returned /\ result_200w[1].avg_200_week = None) =>
          /\ result_200w[1].rec_type = "neutral"
          /\ result_200w[1].rec_text = <<INSUFFICIENT>>
    /\ (AllAveragesReturned /\ result[1].avg_200w = None) =>
          /\ result[1].rec_type = "neutral"
          /\ result[1].rec_text \in {<<INSUFFICIENT>>, <<INSUFFICIENT_ALL>>}

\* C10: within one /api/stock-details request no provider ticker is probed by
\* normalize_ticker a second time.
C10_NoTickerProbedTwice ==
    handler = "stock_details" =>
        \A i, j \in 1..Len(probes) : probes[i] = probes[j] => i = j

\* the cleaned weekly series get_200_week_average worked on
WeeklySeriesOfCall ==
    weekly_series(weekly_frame(arg_net.download, arg_net.history))

Weekly200Called == fn = "get_200_week_average" /\ ret # None /\ ~ret[1].raised

\* C5: for a cleaned weekly series of length w, weeks_available = w, weeks_used =
\* min(w, 200), and for w > 0 the average is the mean of exactly the last
\* weeks_used values and latest_price the last value; the average is null only
\* when the series is empty.
C5_WeeklyAverage ==
    Weekly200Called =>
        LET r == ret[1]
            s == WeeklySeriesOfCall
            w == Len(s)
        IN  /\ r.weeks_available = w
            /\ r.weeks_used = Min(w, 200)
            /\ (w > 0 => /\ IsMeanOfLast(r.avg_200_week, s, r.weeks_used)
                         /\ r.latest_price = Some(s[w]))
            /\ (r.avg_200_week = None <=> w = 0)

\* C5's case: a series longer than 200 weeks whose first value is not the later ones
C5_Witness ==
    /\ Weekly200Called
    /\ Len(WeeklySeriesOfCall) > 200
    /\ WeeklySeriesOfCall[1] # WeeklySeriesOfCall[2]
    /\ ret[1].weeks_used = 200

\* the cleaned daily series _calculate_moving_average worked on (empty when the
\* provider raised, or gave no table or no price column)
DailySeriesOfCall ==
    LET df == daily_frame(arg_days, arg_net.history_1y, arg_net.download, arg_net.history)
    IN  IF df.kind = "raise" \/ is_empty(df) \/ daily_col(df) = None THEN <<>>
        ELSE dropna(to_numeric(column_of(df, daily_col(df)[1])))

\* the k-day average the claim prescribes
IsTrailingMean(value, s, k) ==
    IF Len(s) < k THEN value = None ELSE IsMeanOfLast(value, s, k)

MovingAverageCalled == fn = "get_moving_average" /\ ret # None /\ ~ret[1].raised
CalculateCalled == fn = "_calculate_moving_average" /\ ret # None

\* C6 as claimed: for every window k the average reported by get_moving_average
\* and by _calculate_moving_average is null when the cleaned daily series has
\* fewer than k samples, and the mean of its last k samples otherwise.
C6_AsClaimed ==
    /\ CalculateCalled => IsTrailingMean(ret[1], DailySeriesOfCall, arg_days)
    /\ MovingAverageCalled => IsTrailingMean(ret[1].value, DailySeriesOfCall, arg_days)

\* C6 as amended: so it is for _calculate_moving_average, and for
\* get_moving_average unless the window is 50 or 200 and the provider's metadata
\* holds a non-zero number for that average, which is then reported as it is.
C6_TrailingMean ==
    /\ CalculateCalled => IsTrailingMean(ret[1], DailySeriesOfCall, arg_days)
    /\ MovingAverageCalled =>
          IF info_average(arg_days, arg_net.info) # None
          THEN /\ arg_days \in {50, 200}
               /\ arg_net.info.kind = "info"
               /\ ret[1].value =
                    Some(float(IF arg_days = 50 THEN arg_net.info.fiftyDayAverage.v
                               ELSE arg_net.info.twoHundredDayAverage.v))
          ELSE IsTrailingMean(ret[1].value, DailySeriesOfCall, arg_days)

\* C6's case: a 200-day average computed from a series longer than 200 samples
C6_Witness ==
    /\ MovingAverageCalled
    /\ arg_days = 200
    /\ Len(DailySeriesOfCall) > 200
    /\ DailySeriesOfCall[1] # DailySeriesOfCall[2]
    /\ ret[1].value # None
    /\ ret[1].value[1].den = 200

\* C9: normalize_ticker never fails; it returns the trimmed upper-cased input with
\* no probe when that holds one of . = ^ -, else the bare symbol when the bare
\* probe has data (one probe), else symbol.NS when the suffixed probe has data
\* (two probes), else the bare symbol.
C9_NormalizeNeverFails ==
    (fn = "normalize_ticker" /\ ret # None) =>
        LET t == upper(strip(arg_ticker))
            r == ret[1]
        IN  /\ ~r.raised
            /\ IF \E i \in 1..Len(t) : t[i] \in {".", "=", "^", "-"}
               THEN r.value = t /\ r.probes = <<>>
               ELSE IF arg_net.us_test.kind = "df" /\ ~is_empty(arg_net.us_test)
               THEN r.value = t /\ Len(r.probes) = 1
               ELSE IF arg_net.nse_test.kind = "df" /\ ~is_empty(arg_net.nse_test)
               THEN r.value = t \o <<".", "N", "S">> /\ Len(r.probes) = 2
               ELSE r.value = t

\* the column the claim selects: the adjusted close if the table has one, else
\* the close, else the first numeric column
ClaimedColumn(df) ==
    LET labelled(l) ==
            SelectSeq(df.cols, LAMBDA c : \E i \in 1..Len(c.name) : c.name[i] = l)
        numeric == SelectSeq(df.cols, LAMBDA c : c.numeric)
    IN  IF labelled("Adj Close") # <<>> THEN Some(labelled("Adj Close")[1])
        ELSE IF labelled("Close") # <<>> THEN Some(labelled("Close")[1])
        ELSE IF numeric # <<>> THEN Some(numeric[1])
        ELSE None

\* the numbers of that column in row order, the other cells dropped
ClaimedSeries(df) ==
    IF ClaimedColumn(df) = None THEN <<>>
    ELSE LET kept == SelectSeq(ClaimedColumn(df)[1].vals,
                               LAMBDA e : e.k \in {"num", "numstr"})
         IN  [i \in 1..Len(kept) |-> kept[i].v]

\* the table a call with a bulk query and a per-symbol retry worked on
FirstWithRows(download, history) ==
    IF download.kind = "df" /\ ~is_empty(download) THEN download ELSE history

HasRows(df) == df.kind = "df" /\ ~is_empty(df)

DailySeriesCalled == fn = "get_daily_series" /\ ret # None /\ ~ret[1].raised
LatestPriceCalled == fn = "get_all_averages.latest_price" /\ ret # None

\* C11: get_200_week_average, get_daily_series, _calculate_moving_average and the
\* latest price of get_all_averages work on the adjusted-close column of the table
\* if it has one, on the close column otherwise, on the first numeric column
\* otherwise, whatever the order of the columns, and on exactly its numeric
\* entries: the others are dropped, none becomes 0.
C11_AdjustedCloseFirst ==
    /\ Weekly200Called =>
          LET s == ClaimedSeries(weekly_frame(arg_net.download, arg_net.history))
          IN  /\ ret[1].weeks_available = Len(s)
              /\ ret[1].latest_price = IF s = <<>> THEN None ELSE Some(s[Len(s)])
              /\ (s # <<>> => IsMeanOfLast(ret[1].avg_200_week, s, Min(Len(s), 200)))
    /\ (DailySeriesCalled /\ HasRows(FirstWithRows(arg_net.download, arg_net.history))) =>
          ret[1].closes = ClaimedSeries(FirstWithRows(arg_net.download, arg_net.history))
    /\ (CalculateCalled
            /\ HasRows(daily_frame(arg_days, arg_net.history_1y, arg_net.download,
                                   arg_net.history))) =>
          IsTrailingMean(ret[1],
                         ClaimedSeries(daily_frame(arg_days, arg_net.history_1y,
                                                   arg_net.download, arg_net.history)),
                         arg_days)
    /\ (LatestPriceCalled /\ ~ret[1].raised) =>
          LET s == ClaimedSeries(FirstWithRows(arg_net.download, arg_net.history))
          IN  s # <<>> /\ ret[1].value = Some(s[Len(s)])

\* C11 without get_daily_series: the three other operations select as claimed
C11_OtherOperations ==
    fn # "get_daily_series" => C11_AdjustedCloseFirst

ReturnedEmpty(q) == q.answer.kind # "raise" /\ is_empty(q.answer)

\* the function went to the provider for a series and has returned
SeriesFetched == ret # None /\ calls # <<>>

\* the function ended without a table: no query raised, none returned rows
NoDataDeclared == SeriesFetched /\ \A i \in 1..Len(calls) : ReturnedEmpty(calls[i])

\* C13: every series fetch asks the bulk endpoint first and, only when that
\* returned empty, asks the per-symbol endpoint once, for the same interval and
\* window; it ends without data only after both returned empty, and never asks the
\* per-symbol endpoint when the bulk endpoint returned data.
C13_BulkThenPerSymbol ==
    SeriesFetched =>
        /\ calls[1].endpoint = "download"
        /\ Len(calls) <= 2
        /\ (Len(calls) = 2 =>
               /\ ReturnedEmpty(calls[1])
               /\ calls[2].endpoint = "history"
               /\ calls[2].window = calls[1].window
               /\ calls[2].interval = calls[1].interval)
        /\ (NoDataDeclared => Len(calls) = 2)

\* C13 for the windows below 200 days and the weekly, chart and latest-price
\* fetches
C13_ShortWindows ==
    ~(fn \in {"_calculate_moving_average", "get_moving_average"} /\ arg_days >= 200) =>
        C13_BulkThenPerSymbol

(***************************************************************************)
(* The directory cache (stock_info.py 396-452), one caller at a time       *)
(***************************************************************************)
\* (now - timestamp) < 3600
StaleAfter == 3600

\* the clock does not pass this, and no more GETs than this are followed
MaxClock == 7202
MaxRequests == 3

\* what the directory source may hold: rows of SYMBOL, NAME OF COMPANY
row(symbol, name) == [SYMBOL |-> symbol, NAME |-> name]
Snapshots ==
    {<<row(<<"R", "E", "L">>, <<"R", "e", "l", " ", "a">>),
       row(<<"A", "B", "B">>, <<"A", "b", "b">>),
       row(<<"B", "E", "L">>, <<"B", " ", "r", "e", "l">>)>>,
     <<row(<<"A", "B", "B">>, <<"A", "b", "b">>),
       row(<<"R", "E", "L">>, <<"R", "e", "l", " ", "a">>)>>}

\* lines 407-408
cache_is_fresh_at_limit(cache, now) ==
    /\ cache.data # None
    /\ cache.timestamp # None
    /\ now - cache.timestamp[1] <= StaleAfter

cache_is_fresh(cache, now) ==
    /\ cache.data # None
    /\ cache.timestamp # None
    /\ now - cache.timestamp[1] < StaleAfter

\* fetch_nse_csv (lines 400-421); answer: what the GET gives, "fail" or a snapshot
\* returns [raised, df, cache, sent]: sent counts the GETs it issued
fetch_nse_csv(cache, now, answer) ==
    IF cache_is_fresh(cache, now)
    THEN [raised |-> FALSE, df |-> cache.data, cache |-> cache, sent |-> 0]
    ELSE IF answer = <<"fail">>
    THEN [raised |-> TRUE, df |-> None, cache |-> cache, sent |-> 1]
    ELSE [raised |-> FALSE, df |-> Some(answer),
          cache |-> [data |-> Some(answer), timestamp |-> Some(now)], sent |-> 1]

\* str.contains(prefix, case=False): the prefix is read as a regular expression
\* (regex=True is the default); of the special characters "." is modelled, which
\* stands for any character
contains(text, pat) ==
    \E i \in 1..(Len(text) - Len(pat) + 1) :
        \A j \in 1..Len(pat) :
            pat[j] = "." \/ upper_char(text[i + j - 1]) = upper_char(pat[j])

\* DataFrame.head(n)
head(rows, n) ==
    IF n >= 0 THEN SubSeq(rows, 1, IF n < Len(rows) THEN n ELSE Len(rows))
    ELSE SubSeq(rows, 1, Len(rows) + n)

\* lines 437-452
matching_rows(df, prefix0, limit) ==
    LET prefix == upper(strip(prefix0))
    IN  head(SelectSeq(df, LAMBDA r : contains(r.SYMBOL, prefix) \/ contains(r.NAME, prefix)),
             limit)

\* the q and limit parameters of /api/search (app.py 39-40): limit is any integer
Prefixes == {<<" ">>, <<"r", "e", "l">>, <<" ", "B">>, <<".">>}
Limits == {-1, 0, 1, 20}

DirectoryInit == idle_engine /\ idle_request /\ idle_batch /\ idle_directory

\* time passes
tick ==
    /\ \E d \in {1799, 1800, 1801} :
          /\ clock + d <= MaxClock
          /\ clock' = clock + d
    /\ UNCHANGED <<nse_cache, requests, lookup, callers, data_requested_at,
                   engine_vars, request_vars, batch_vars>>

\* search_nse_stocks(prefix, limit) (lines 424-452)
search_nse_stocks ==
    /\ requests < MaxRequests
    /\ \E prefix \in Prefixes, limit \in Limits,
          answer \in {<<"fail">>} \cup Snapshots :
          IF strip(prefix) = <<>>
          THEN /\ lookup' = Some([prefix |-> prefix, limit |-> limit, fetched |-> FALSE,
                                  out |-> <<>>])
               /\ UNCHANGED <<nse_cache, requests>>
          ELSE LET f == fetch_nse_csv(nse_cache, clock, answer)
               IN  /\ nse_cache' = f.cache
                   /\ requests' = requests + f.sent
                   /\ lookup' = Some([prefix |-> prefix, limit |-> limit, fetched |-> TRUE,
                                      at |-> clock, before |-> nse_cache, sent |-> f.sent,
                                      raised |-> f.raised, df |-> f.df,
                                      out |-> IF f.raised THEN <<>>
                                              ELSE matching_rows(f.df[1], prefix, limit)])
    /\ UNCHANGED <<clock, callers, data_requested_at, engine_vars, request_vars, batch_vars>>

DirectoryNext ==
    \/ tick
    \/ search_nse_stocks

SpecDirectory == DirectoryInit /\ [][DirectoryNext]_vars

(***************************************************************************)
(* fetch_nse_csv (stock_info.py 400-421) called from several request       *)
(* threads: the statements of a call interleave with those of the others   *)
(***************************************************************************)
\* a call lasts at most this many seconds
MaxSkew == 2

ConcurrentInit == idle_engine /\ idle_request /\ idle_batch /\ idle_directory

in_call(t) == callers[t].pc # "outside"

\* a second passes while a call is under way
call_takes_time ==
    /\ \E t \in Callers : in_call(t)
    /\ \A t \in Callers : in_call(t) => clock + 1 - callers[t].now <= MaxSkew
    /\ clock + 1 <= MaxClock
    /\ clock' = clock + 1
    /\ UNCHANGED <<nse_cache, requests, lookup, callers, data_requested_at,
                   engine_vars, request_vars, batch_vars>>

\* an hour less a second passes between calls
time_passes ==
    /\ \A t \in Callers : ~in_call(t)
    /\ clock + (StaleAfter - 1) <= MaxClock
    /\ clock' = clock + (StaleAfter - 1)
    /\ UNCHANGED <<nse_cache, requests, lookup, callers, data_requested_at,
                   engine_vars, request_vars, batch_vars>>

\* lines 405-410: now = time.time(); a fresh cache is returned
begin_fetch(t) ==
    /\ ~in_call(t)
    /\ IF cache_is_fresh(nse_cache, clock)
       THEN /\ callers' = [callers EXCEPT ![t] =
                  [pc |-> "outside", now |-> clock, df |-> nse_cache.data,
                   served |-> Some([at |-> clock, timestamp |-> nse_cache.timestamp,
                                    data_requested_at |-> data_requested_at])]]
            /\ UNCHANGED requests
       ELSE /\ requests < MaxRequests
            /\ callers' = [callers EXCEPT ![t] =
                  [pc |-> "get", now |-> clock, df |-> None, served |-> None]]
            /\ requests' = requests + 1
    /\ UNCHANGED <<nse_cache, clock, lookup, data_requested_at,
                   engine_vars, request_vars, batch_vars>>

\* lines 413-415 and 420-421: the GET answers, or fails and the call raises
get_returns(t) ==
    /\ callers[t].pc = "get"
    /\ \E answer \in {<<"fail">>} \cup Snapshots :
          callers' = [callers EXCEPT ![t] =
              IF answer = <<"fail">> THEN [outside EXCEPT !.now = callers[t].now]
              ELSE [callers[t] EXCEPT !.pc = "store_data", !.df = Some(answer)]]
    /\ UNCHANGED <<nse_cache, clock, requests, lookup, data_requested_at,
                   engine_vars, request_vars, batch_vars>>

\* line 417: _nse_cache["data"] = df
store_data(t) ==
    /\ callers[t].pc = "store_data"
    /\ nse_cache' = [nse_cache EXCEPT !.data = callers[t].df]
    /\ data_requested_at' = Some(callers[t].now)
    /\ callers' = [callers EXCEPT ![t].pc = "store_timestamp"]
    /\ UNCHANGED <<clock, requests, lookup, engine_vars, request_vars, batch_vars>>

\* lines 418-419: _nse_cache["timestamp"] = now; return df
store_timestamp(t) ==
    /\ callers[t].pc = "store_timestamp"
    /\ nse_cache' = [nse_cache EXCEPT !.timestamp = Some(callers[t].now)]
    /\ callers' = [callers EXCEPT ![t].pc = "outside"]
    /\ UNCHANGED <<clock, requests, lookup, data_requested_at,
                   engine_vars, request_vars, batch_vars>>

ConcurrentNext ==
    \/ call_takes_time
    \/ time_passes
    \/ \E t \in Callers : begin_fetch(t)
    \/ \E t \in Callers : get_returns(t)
    \/ \E t \in Callers : store_data(t)
    \/ \E t \in Callers : store_timestamp(t)

SpecConcurrentDirectory == ConcurrentInit /\ [][ConcurrentNext]_vars

(***************************************************************************)
(* Claims about the batch fetchers and the directory cache                 *)
(***************************************************************************)
PositionOf(symbol) == CHOOSE i \in 1..Len(filtered) : filtered[i] = symbol

\* N entries, every filtered symbol exactly once
OneEntryPerSymbol ==
    /\ Len(results) = Len(filtered)
    /\ \A i \in 1..Len(filtered) :
          Cardinality({k \in 1..Len(results) : results[k].symbol = filtered[i]}) = 1

PriceAnswer(i) == upstream[i].price[1]
PriceFailed(i) == PriceAnswer(i).kind = "raise" \/ is_empty(PriceAnswer(i))

\* the weekly queries of get_200_week_average raised or both returned no rows
WeeklyFailed(i) ==
    /\ upstream[i].weekly # None
    /\ LET d == upstream[i].weekly[1][1]
           h == upstream[i].weekly[1][2]
       IN  \/ d.kind = "raise"
           \/ is_empty(d) /\ (h.kind = "raise" \/ is_empty(h))

\* the table holds a number in a Close or Adj Close column
HasClosePrice(t) ==
    /\ t.kind = "df"
    /\ \E j \in 1..Len(t.cols) :
          /\ t.cols[j].name[Len(t.cols[j].name)] \in {"Close", "Adj Close"}
          /\ \E n \in 1..Len(t.cols[j].vals) : t.cols[j].vals[n].k \in {"num", "numstr"}

\* C1 as claimed: the batch returns one entry per filtered symbol; the entries of
\* the symbols whose upstream calls failed or returned empty data carry "error" or
\* "no_data", all the others "success".
C1_AsClaimed ==
    returned =>
        /\ OneEntryPerSymbol
        /\ \A k \in 1..Len(results) :
              LET i == PositionOf(results[k].symbol)
              IN  IF PriceFailed(i) \/ WeeklyFailed(i)
                  THEN results[k].status \in {"error", "no_data"}
                  ELSE results[k].status = "success"

\* C1 as amended: one entry per filtered symbol; the status follows the price call
\* alone: "error" when it raised, "no_data" when it gave no number in a Close or
\* Adj Close column, "success" otherwise, also when the 200-week fetch failed,
\* which only leaves avg_200w null.
C1_OneEntryPerSymbol ==
    returned =>
        /\ OneEntryPerSymbol
        /\ \A k \in 1..Len(results) :
              LET i == PositionOf(results[k].symbol)
                  e == results[k]
              IN  /\ e.status = IF PriceAnswer(i).kind = "raise" THEN "error"
                                ELSE IF ~HasClosePrice(PriceAnswer(i)) THEN "no_data"
                                ELSE "success"
                  /\ (e.status = "success") = (e.price # None)
                  /\ (WeeklyFailed(i) => e.status = "success" /\ e.avg_200w = None)

\* C1's case: a returned batch with an entry of each status, one of the successes
\* with a failed 200-week fetch
C1_Witness ==
    /\ returned
    /\ Len(results) >= 3
    /\ \E a, b, c \in 1..Len(results) :
          /\ results[a].status = "error"
          /\ results[b].status = "no_data"
          /\ results[c].status = "success"
          /\ WeeklyFailed(PositionOf(results[c].symbol))

DirectoryFetched == lookup # None /\ lookup[1].fetched

\* the snapshot was fresh when the lookup was made
WasFresh ==
    /\ lookup[1].before.data # None
    /\ lookup[1].before.timestamp # None
    /\ lookup[1].at - lookup[1].before.timestamp[1] < 3600

\* C7: a lookup made less than 3600 seconds after the last successful fetch issues
\* no request and returns the cached snapshot unchanged; a lookup made when the
\* snapshot is 3600 seconds old or older, or when nothing is cached, issues
\* exactly one refresh attempt.
C7_RefreshOncePerWindow ==
    DirectoryFetched =>
        IF WasFresh
        THEN /\ lookup[1].sent = 0
             /\ ~lookup[1].raised
             /\ lookup[1].df = lookup[1].before.data
             /\ nse_cache = lookup[1].before
        ELSE lookup[1].sent = 1

\* C7's case: a lookup made exactly 3600 seconds after the last successful fetch
C7_Witness ==
    /\ DirectoryFetched
    /\ lookup[1].before.timestamp # None
    /\ lookup[1].at - lookup[1].before.timestamp[1] = 3600
    /\ lookup[1].sent = 1

\* text holds part as a substring, letter case aside
ContainsText(text, part) ==
    \E i \in 1..(Len(text) - Len(part) + 1) :
        upper(SubSeq(text, i, i + Len(part) - 1)) = upper(part)

\* the rows of a snapshot the claims expect for a prefix: the first rows, at most
\* limit of them, that hold the prefix in the symbol or the name
ExpectedRows(df, prefix, limit) ==
    LET p == upper(strip(prefix))
        hits == SelectSeq(df, LAMBDA r : ContainsText(r.SYMBOL, p) \/ ContainsText(r.NAME, p))
    IN  SubSeq(hits, 1, Min(IF limit < 0 THEN 0 ELSE limit, Len(hits)))

\* C8: when the refresh fails, search_nse_stocks answers from the stale snapshot if
\* there is one (its matching rows) and with an empty list only if nothing was
\* ever cached; the failed refresh leaves the cache as it was.
C8_StaleSnapshotOnFailure ==
    (DirectoryFetched /\ lookup[1].raised) =>
        /\ nse_cache = lookup[1].before
        /\ lookup[1].out =
              IF lookup[1].before.data # None
              THEN ExpectedRows(lookup[1].before.data[1], lookup[1].prefix, lookup[1].limit)
              ELSE <<>>

\* C12: search_nse_stocks(prefix, limit) returns no row for an empty or
\* whitespace-only prefix; otherwise, from the snapshot it fetched, the rows whose
\* symbol or name holds the prefix (letter case aside), in row order, and never
\* more of them than limit, for every integer limit.
C12_SearchResults ==
    lookup # None =>
        IF strip(lookup[1].prefix) = <<>> THEN lookup[1].out = <<>>
        ELSE ~lookup[1].raised =>
                /\ lookup[1].out =
                      ExpectedRows(lookup[1].df[1], lookup[1].prefix, lookup[1].limit)
                /\ Len(lookup[1].out) <= (IF lookup[1].limit < 0 THEN 0 ELSE lookup[1].limit)

\* C12 for a limit that is not negative and a prefix of letters
C12_PlainPrefix ==
    (lookup # None /\ lookup[1].limit >= 0 /\ lookup[1].prefix # <<".">>) =>
        C12_SearchResults

\* a symbol waits for a worker
SymbolQueued == \E i \in 1..Len(task) : task[i].state = "queued"

\* what holds of the pool in every state: at most 10 pipelines in flight; the
\* pipelines in flight keep no waiting symbol from a free worker; the result
\* list is returned only with an entry of every submitted symbol
PoolIsBounded ==
    /\ Cardinality(in_flight) <= 10
    /\ (batch # "idle" /\ SymbolQueued /\ Cardinality(in_flight) < 10) =>
          ENABLED (\E i \in 1..Len(task) : dispatch(i))
    /\ returned =>
          /\ \A i \in 1..Len(task) : task[i].state = "collected"
          /\ OneEntryPerSymbol

\* C14: during a batch fetch at most 10 per-symbol pipelines are in flight at
\* once, a stalled symbol holds only its own worker, the batch returns its list
\* only after every submitted symbol has produced an entry, and if every upstream
\* call returns the batch returns.
C14_BoundedPool ==
    /\ []PoolIsBounded
    /\ (batch # "idle") ~> returned

\* C14's case: the first symbol is still in flight while the ten workers are busy,
\* the eleventh symbol got the worker another symbol gave back
C14_Witness ==
    /\ Len(task) > 10
    /\ Cardinality(in_flight) = 10
    /\ task[1].state = "price"
    /\ task[11].state = "price"
    /\ Len(results) >= 1

\* C15: a record that carries a latest price and a 200-week average had both
\* fetched for one provider ticker: in a batch the weekly queries of a symbol go
\* to symbol.NS, the ticker of its price query, also for a symbol with a "-"; in
\* get_all_averages the weekly queries go to the normalized ticker the record
\* reports.
C15_SameProviderTicker ==
    /\ returned =>
          \A k \in 1..Len(results) :
              (results[k].price # None /\ results[k].avg_200w # None) =>
                  LET i == PositionOf(results[k].symbol)
                  IN  /\ upstream[i].price_ticker = Some(results[k].symbol \o <<".", "N", "S">>)
                      /\ upstream[i].weekly_ticker = upstream[i].price_ticker
    /\ (AllAveragesReturned /\ result[1].latest_price # None /\ result[1].avg_200w # None) =>
          /\ result[1].ticker = norm[1]
          /\ result_200w[1].ticker = result[1].ticker

\* C15 in a batch, for the symbols written without . = ^ -
C15_PlainSymbols ==
    returned =>
        \A k \in 1..Len(results) :
            (results[k].price # None /\ results[k].avg_200w # None
                /\ ~is_qualified(results[k].symbol)) =>
                upstream[PositionOf(results[k].symbol)].weekly_ticker =
                    upstream[PositionOf(results[k].symbol)].price_ticker

\* C16: under any interleaving of concurrent fetch_nse_csv calls, whenever a call
\* is served from the cache the stored timestamp is the request time of the call
\* that stored the data, so the snapshot served is less than 3600 seconds old.
C16_CacheNeverCorrupted ==
    \A t \in Callers :
        callers[t].served # None =>
            LET s == callers[t].served[1]
            IN  /\ s.timestamp = s.data_requested_at
                /\ s.at - s.data_requested_at[1] < 3600

====
